---- MODULE Spec2Model ----
(***************************************************************************)
(* Model of the Vizio device session manager (src/src/tv.py, class         *)
(* VizioTv) as an asyncio state machine.                                   *)
(*                                                                         *)
(* The session runs on one cooperative event loop.  The vendor client      *)
(* (pyvizio.Vizio) is synchronous, so a coroutine is suspended only at     *)
(* `await asyncio.sleep(..)` and before its first step; every action below *)
(* is the code that runs between two suspension points.  A sleep is a      *)
(* suspension of unknown length (the loop may be kept busy by blocking     *)
(* vendor calls); wall-clock time is visible to the code only through the  *)
(* two power deadlines, kept here as the seconds that remain.              *)
(***************************************************************************)
EXTENDS Integers, Sequences, FiniteSets, TLC

VARIABLES
    vizio,              \* self._vizio is not None
    is_connected,       \* self._is_connected
    is_on,              \* self._is_on
    connect_task,       \* self._connect_task is not None
    polling,            \* self._polling is not None
    end_of_power_off,   \* self._end_of_power_off: <<>> (None) or <<seconds left>>
    end_of_power_on,    \* self._end_of_power_on:  <<>> (None) or <<seconds left>>
    active_source,      \* self._active_source
    input_list,         \* self._input_list
    app_list,           \* self._app_list (its keys, in insertion order)
    mac_address,        \* self._device.mac_address is set
    mac_address2,       \* self._device.mac_address2 is set
    connect_coros,      \* live _connect_setup coroutines of the event loop
    poll_coros,         \* live _poll_worker coroutines of the event loop
    power_on_coros,     \* live power_on coroutines of the event loop
    op,                 \* observation: the step that ran last
    emitted,            \* observation: events emitted by the last step, in order
    calls,              \* observation: vendor / wake calls issued by the last step
    connect_calls,      \* observation: connect() calls since the last disconnect()
    attempts,           \* observation: _connect() runs since the last disconnect()
    connected_events,   \* observation: CONNECTED events since the last disconnect()
    ever_on,            \* observation: some get_power_state() call returned "on"
    tv_inputs,          \* the device: the inputs it has, in the order it lists them
    tv_apps,            \* the device: the apps it has, in the order it lists them
    configured_entities, \* driver: api.configured_entities, the attributes of the
                        \* session's two entities (<<>> for one not configured)
    sent,               \* observation: the update_attributes() calls of the last step
    listeners           \* driver: on_device_update listens to UPDATE on self.events

vars == << vizio, is_connected, is_on, connect_task, polling, end_of_power_off,
           end_of_power_on, active_source, input_list, app_list, mac_address,
           mac_address2, connect_coros, poll_coros, power_on_coros, op, emitted,
           calls, connect_calls, attempts, connected_events, ever_on, tv_inputs,
           tv_apps, configured_entities, sent, listeners >>

\* ---------------------------------------------------------------- bounds
TickSec == 33
MaxPowerOnTasks == 1
MaxCount == 2
MaxCalls == 1
MaxTasks == 2

\* ------------------------------------------------------ program constants
PowerOnSec == 15
PowerOffSec == 65
WakeRounds == 7

\* ------------------------------------------------------------ value sets
None == << >>
NoAttrs == [k \in {} |-> ""]

\* Outcomes of a vendor call that returns the power state.
PowerResults == {"on", "off", "raise"}
\* Outcomes of a vendor call that returns nothing.
CallResults == {"ok", "raise"}
\* All names, in ascending string order (the order sorted() uses).
NameOrder == << "CAST", "HDMI1", "Netflix" >>
\* Outcomes of get_inputs_list() / get_apps_list(): the call raises, or it
\* returns the list the device has.
ListResults(list) == { [ok |-> FALSE, val |-> << >>], [ok |-> TRUE, val |-> list] }
\* Outcomes of get_current_input(): the call raises, returns nothing, or
\* returns one of the device's inputs.
CurrentInputResults == { [ok |-> FALSE, val |-> ""], [ok |-> TRUE, val |-> ""] }
    \cup { [ok |-> TRUE, val |-> tv_inputs[k]] : k \in 1..Len(tv_inputs) }
\* Outcomes of get_current_app(): the call raises, returns nothing or one of
\* the vendor library's placeholders, or returns one of the device's apps.
CurrentAppResults == { [ok |-> FALSE, val |-> ""], [ok |-> TRUE, val |-> ""],
                       [ok |-> TRUE, val |-> "Unknown App"],
                       [ok |-> TRUE, val |-> "No App Running"] }
    \cup { [ok |-> TRUE, val |-> tv_apps[k]] : k \in 1..Len(tv_apps) }
PowerArgs == {"true", "false", "none"}
\* Abstract keys a caller passes to send_key: two with an entry in the key
\* mapping, one (the simple command CH_LIST) without.
SendKeys == {"KEY_MUTE", "KEY_CHANNEL_UP", "KEY_CH_LIST"}
\* key.replace("KEY_", "")
StripKey == [KEY_MUTE |-> "MUTE", KEY_CHANNEL_UP |-> "CHANNEL_UP", KEY_CH_LIST |-> "CH_LIST"]
\* VIZIO_KEY_MAPPING, on the names above
VIZIO_KEY_MAPPING == [MUTE |-> "MUTE", CHANNEL_UP |-> "CH_UP"]
\* Source names a caller passes to launch_app: none, an HDMI input, an app.
AppNames == {"", "HDMI1", "Netflix"}
\* app_name.startswith("HDMI")
StartsWithHdmi(app_name) == app_name \in {"HDMI1"}
\* The outcomes to draw for a call: one (never looked at) when the step does
\* not make the call, or makes it and does not depend on its outcome (the
\* first wake packet, whose failure only skips the packet to mac_address2).
IfCalled(called, results) == IF called THEN results ELSE {CHOOSE r \in results : TRUE}

\* ------------------------------------------------------------ the session
\* The session and loop state as one record, so that a handler is a function
\* from state to state and handlers compose the way the code calls them.
Cur ==
    [ vizio |-> vizio, is_connected |-> is_connected, is_on |-> is_on,
      connect_task |-> connect_task, polling |-> polling,
      end_of_power_off |-> end_of_power_off, end_of_power_on |-> end_of_power_on,
      active_source |-> active_source, input_list |-> input_list,
      app_list |-> app_list, mac_address |-> mac_address,
      mac_address2 |-> mac_address2, connect_coros |-> connect_coros,
      poll_coros |-> poll_coros, power_on_coros |-> power_on_coros,
      op |-> [name |-> "none", arg |-> "", out |-> ""],
      emitted |-> << >>, calls |-> << >>,
      connect_calls |-> connect_calls, attempts |-> attempts,
      connected_events |-> connected_events, ever_on |-> ever_on ]

CommitSession(s) ==
    /\ vizio' = s.vizio
    /\ is_connected' = s.is_connected
    /\ is_on' = s.is_on
    /\ connect_task' = s.connect_task
    /\ polling' = s.polling
    /\ end_of_power_off' = s.end_of_power_off
    /\ end_of_power_on' = s.end_of_power_on
    /\ active_source' = s.active_source
    /\ input_list' = s.input_list
    /\ app_list' = s.app_list
    /\ mac_address' = s.mac_address
    /\ mac_address2' = s.mac_address2
    /\ connect_coros' = s.connect_coros
    /\ poll_coros' = s.poll_coros
    /\ power_on_coros' = s.power_on_coros
    /\ op' = s.op
    /\ emitted' = s.emitted
    /\ calls' = s.calls
    /\ connect_calls' = s.connect_calls
    /\ attempts' = s.attempts
    /\ connected_events' = s.connected_events
    /\ ever_on' = s.ever_on

Commit(s) ==
    /\ CommitSession(s)
    /\ UNCHANGED << tv_inputs, tv_apps, configured_entities, sent, listeners >>

Bump(n) == IF n < MaxCount THEN n + 1 ELSE n

BumpCalls(n) == IF n < MaxCalls THEN n + 1 ELSE n

Remove(seq, k) == SubSeq(seq, 1, k - 1) \o SubSeq(seq, k + 1, Len(seq))

Unref(seq) == [k \in 1..Len(seq) |-> [seq[k] EXCEPT !.ref = FALSE]]

\* Task.cancel() having no effect on the coroutine
cancel_ignored(seq) == seq

\* Task.cancel() on the task a handle refers to: the coroutine gets
\* CancelledError at the sleep it is suspended in (or before its first step)
\* and runs no further code of the session.
Cancelled(seq) == SelectSeq(seq, LAMBDA c : ~c.ref)

Upd(attrs) == [type |-> "UPDATE", attrs |-> attrs]

Ev(type) == [type |-> type, attrs |-> NoAttrs]

\* self.events.emit(...)
emit(s, e) ==
    [s EXCEPT !.emitted = Append(@, e),
              !.connected_events = IF e.type = "CONNECTED" THEN Bump(@) ELSE @]

\* a call of the device client or of wakeonlan
call(s, c) == [s EXCEPT !.calls = Append(@, c)]

Done(s, name, arg, out) == [s EXCEPT !.op = [name |-> name, arg |-> arg, out |-> out]]

StateOf(on) == IF on THEN "ON" ELSE "OFF"

\* property is_connected
IsConnected(s) == s.vizio /\ s.is_connected

\* property state
state(s) == StateOf(s.is_on)

\* property power_off_in_progress
power_off_in_progress(s) ==
    s.end_of_power_off # None /\ s.end_of_power_off[1] > 0

\* property power_on_in_progress
power_on_in_progress(s) ==
    s.end_of_power_on # None /\ s.end_of_power_on[1] > 0

Rank(n) == CHOOSE k \in 1..Len(NameOrder) : NameOrder[k] = n

\* sorted(list)
sorted(seq) == SortSeq(seq, LAMBDA a, b : Rank(a) < Rank(b))

\* property source_list
source_list(s) == sorted(s.input_list \o s.app_list)

\* property attributes
attributes(s) ==
    LET with_state == [state |-> state(s)]
        with_list == IF source_list(s) # << >>
                     THEN [source_list |-> source_list(s)] ELSE NoAttrs
        with_source == IF s.active_source # ""
                       THEN [source |-> s.active_source] ELSE NoAttrs
    IN  [k \in DOMAIN with_state \cup DOMAIN with_list \cup DOMAIN with_source |->
            IF k = "state" THEN with_state[k]
            ELSE IF k = "source_list" THEN with_list[k] ELSE with_source[k]]

\* ------------------------------------------------- connection lifecycle
\* asyncio.create_task(self._connect_setup()); self._connect_task = <task>
create_connect_task(s) ==
    [s EXCEPT !.connect_task = TRUE,
              !.connect_coros = Append(Unref(@), [pc |-> "start", ref |-> TRUE])]

\* connect() without the `if not self._connect_task` test
connect_unguarded(s) ==
    LET s1 == [s EXCEPT !.connect_calls = BumpCalls(@)]
    IN  IF s1.vizio /\ s1.is_connected
        THEN s1
        ELSE create_connect_task(emit(s1, Ev("CONNECTING")))

\* async def connect(self)
connect(s) ==
    LET s1 == [s EXCEPT !.connect_calls = BumpCalls(@)]
    IN  IF s1.vizio /\ s1.is_connected
        THEN s1
        ELSE IF ~s1.connect_task
             THEN create_connect_task(emit(s1, Ev("CONNECTING")))
             ELSE s1

\* _stop_polling() without the cancel(): the handle is cleared, the task lives
stop_polling_keeps_task(s) ==
    [s EXCEPT !.polling = FALSE]

\* async def _stop_polling(self)
_stop_polling(s) ==
    IF s.polling
    THEN [s EXCEPT !.poll_coros = Cancelled(@), !.polling = FALSE]
    ELSE s

\* _start_polling() without the `if not self._polling` test
start_polling_unguarded(s) ==
    [s EXCEPT !.polling = TRUE,
              !.poll_coros = Append(Unref(@), [ref |-> TRUE])]

\* async def _start_polling(self)
_start_polling(s) ==
    IF ~s.polling
    THEN [s EXCEPT !.polling = TRUE,
                   !.poll_coros = Append(Unref(@), [ref |-> TRUE])]
    ELSE s

\* disconnect() without the cancel() of the connect task
disconnect_no_cancel(s, continue_polling) ==
    LET s1 == IF ~continue_polling THEN _stop_polling(s) ELSE s
    IN  emit([s1 EXCEPT !.connect_task = FALSE, !.vizio = FALSE,
                        !.is_connected = FALSE, !.connect_calls = 0,
                        !.attempts = 0, !.connected_events = 0],
             Ev("DISCONNECTED"))

\* disconnect() clearing the connected flag but keeping the handle
disconnect_keeps_handle(s, continue_polling) ==
    LET s1 == IF ~continue_polling THEN _stop_polling(s) ELSE s
        s2 == IF s1.connect_task
              THEN [s1 EXCEPT !.connect_coros = Cancelled(@)]
              ELSE s1
        s3 == [s2 EXCEPT !.connect_task = FALSE,
                         !.is_connected = FALSE,
                         !.connect_calls = 0,
                         !.attempts = 0,
                         !.connected_events = 0]
    IN  emit(s3, Ev("DISCONNECTED"))

\* async def disconnect(self, continue_polling=True)
disconnect(s, continue_polling) ==
    LET s1 == IF ~continue_polling THEN _stop_polling(s) ELSE s
        s2 == IF s1.connect_task
              THEN [s1 EXCEPT !.connect_coros = Cancelled(@)]
              ELSE s1
        s3 == [s2 EXCEPT !.connect_task = FALSE,
                         !.vizio = FALSE,
                         !.is_connected = FALSE,
                         !.connect_calls = 0,
                         !.attempts = 0,
                         !.connected_events = 0]
    IN  emit(s3, Ev("DISCONNECTED"))

\* async def _connect(self): the result carries whether the probe raised.
\* guess_device_type() only picks the device_type argument; its failure is
\* swallowed and leaves no trace in the session.
_connect(s, probe) ==
    LET s1 == call([s EXCEPT !.vizio = TRUE, !.attempts = Bump(@)], "get_power_state")
    IN  IF probe = "raise"
        THEN [raised |-> TRUE,
              st |-> [s1 EXCEPT !.is_connected = FALSE, !.vizio = FALSE]]
        ELSE [raised |-> FALSE,
              st |-> [s1 EXCEPT !.is_connected = TRUE,
                                !.is_on = (probe = "on"),
                                !.ever_on = @ \/ (probe = "on")]]

\* async def _connect_setup(self), from its start to `await asyncio.sleep(1)`.
\* The result carries whether the coroutine reaches that sleep uncancelled.
_connect_setup(s, probe) ==
    LET r == _connect(s, probe)
        tried ==
            IF r.raised
            THEN [alive |-> TRUE,
                  st |-> [r.st EXCEPT !.vizio = FALSE, !.is_connected = FALSE]]
            ELSE IF r.st.vizio /\ r.st.is_connected
                 THEN [alive |-> TRUE,
                       st |-> emit([r.st EXCEPT !.is_on = TRUE],
                                   Upd([state |-> "ON"]))]
                 ELSE [alive |-> FALSE,
                       st |-> disconnect(emit(r.st, Upd([state |-> "OFF"])), TRUE)]
    IN  [alive |-> tried.alive,
         raised |-> r.raised,
         st |-> emit(tried.st, Ev("CONNECTED"))]

\* check_connection_and_reconnect() returning only once the attempt it
\* started has connected the session
check_connection_and_reconnect_awaited(s) ==
    IF ~s.vizio \/ ~s.is_connected
    THEN [connect(s) EXCEPT !.vizio = TRUE, !.is_connected = TRUE]
    ELSE s

\* async def check_connection_and_reconnect(self)
check_connection_and_reconnect(s) ==
    IF ~s.vizio \/ ~s.is_connected THEN connect(s) ELSE s

\* async def _update_input_list(self)
_update_input_list(s, r) ==
    IF s.vizio /\ s.is_connected
    THEN LET s1 == call(s, "get_inputs_list")
         IN  IF r.ok /\ r.val # << >>
             THEN emit([s1 EXCEPT !.input_list = r.val],
                       Upd([source_list |-> r.val]))
             ELSE s1
    ELSE s

\* {app: app for app in apps}: the keys, each once, in order of first occurrence
Keys(apps) ==
    LET F[k \in 0..Len(apps)] ==
            IF k = 0 THEN << >>
            ELSE IF \E j \in 1..(k - 1) : apps[j] = apps[k]
                 THEN F[k - 1]
                 ELSE Append(F[k - 1], apps[k])
    IN  F[Len(apps)]

\* async def _update_app_list(self)
_update_app_list(s, r) ==
    IF s.vizio /\ s.is_connected
    THEN LET s1 == call(s, "get_apps_list")
         IN  IF r.ok /\ r.val # << >>
             THEN LET s2 == [s1 EXCEPT !.app_list = Keys(r.val)]
                  IN  emit(s2, Upd([source_list |-> source_list(s2)]))
             ELSE s1
    ELSE s

\* async def _update_current_input(self)
_update_current_input(s, r) ==
    IF s.vizio /\ s.is_connected
    THEN LET s1 == call(s, "get_current_input")
         IN  IF r.ok /\ r.val # ""
             THEN emit([s1 EXCEPT !.active_source = r.val], Upd([source |-> r.val]))
             ELSE s1
    ELSE s

\* _update_current_app() without the comparison with the two placeholders
update_current_app_unfiltered(s, r) ==
    IF s.vizio /\ s.is_connected
    THEN LET s1 == call(s, "get_current_app")
         IN  IF r.ok /\ r.val # ""
             THEN emit([s1 EXCEPT !.active_source = r.val], Upd([source |-> r.val]))
             ELSE s1
    ELSE s

\* async def _update_current_app(self)
_update_current_app(s, r) ==
    IF s.vizio /\ s.is_connected
    THEN LET s1 == call(s, "get_current_app")
         IN  IF r.ok /\ r.val # "" /\ r.val # "Unknown App" /\ r.val # "No App Running"
             THEN emit([s1 EXCEPT !.active_source = r.val], Upd([source |-> r.val]))
             ELSE s1
    ELSE s

\* async def _connect_setup(self), after `await asyncio.sleep(1)`
_connect_setup_settled(s, inputs, apps) ==
    _update_app_list(_update_input_list(_start_polling(s), inputs), apps)

\* _poll_worker() without the try/except around the body of its loop: an
\* exception of get_power_state() ends the task
poll_worker_uncaught(s, power, current_input, current_app) ==
    IF s.vizio /\ s.is_connected
    THEN IF power = "raise"
         THEN [call(s, "get_power_state") EXCEPT !.poll_coros = << >>]
         ELSE call([s EXCEPT !.is_on = (power = "on")], "get_power_state")
    ELSE connect(s)

\* _poll_worker() without the `if power_state != self._is_on` test
poll_worker_always_emits(s, power, current_input, current_app) ==
    IF s.vizio /\ s.is_connected
    THEN LET s1 == call(s, "get_power_state")
         IN  IF power = "raise"
             THEN s1
             ELSE emit([s1 EXCEPT !.is_on = (power = "on")],
                       Upd([state |-> StateOf(power = "on")]))
    ELSE connect(s)

\* one iteration of the loop of async def _poll_worker(self)
_poll_worker(s, power, current_input, current_app) ==
    IF s.vizio /\ s.is_connected
    THEN LET s1 == call(s, "get_power_state")
         IN  IF power = "raise"
             THEN s1
             ELSE LET on == (power = "on")
                      s2 == [s1 EXCEPT !.ever_on = @ \/ on]
                      s3 == IF on # s2.is_on
                            THEN emit([s2 EXCEPT !.is_on = on],
                                      Upd([state |-> StateOf(on)]))
                            ELSE s2
                  IN  IF s3.is_on
                      THEN _update_current_app(
                               _update_current_input(s3, current_input), current_app)
                      ELSE s3
    ELSE connect(s)

\* send_key() passing a key without a mapping to the device as it is
send_key_unmapped_forwarded(s, key, res) ==
    LET s1 == check_connection_and_reconnect(s)
    IN  IF ~s1.vizio \/ ~s1.is_connected
        THEN Done(s1, "send_key", key, "not_connected")
        ELSE Done(call(s1, "remote"), "send_key", key,
                  IF res = "ok" THEN "sent" ELSE "error")

\* async def send_key(self, key); `res` is the outcome of self._vizio.remote()
send_key(s, key, res) ==
    LET s1 == check_connection_and_reconnect(s)
    IN  IF ~s1.vizio \/ ~s1.is_connected
        THEN Done(s1, "send_key", key, "not_connected")
        ELSE IF StripKey[key] \in DOMAIN VIZIO_KEY_MAPPING
             THEN Done(call(s1, "remote"), "send_key", key,
                       IF res = "ok" THEN "sent" ELSE "error")
             ELSE Done(s1, "send_key", key, "unmapped")

\* launch_app() without the `if self.power_off_in_progress:` test
launch_app_no_lockout(s, app_name, res) ==
    LET s1 == check_connection_and_reconnect(s)
    IN  IF ~s1.vizio \/ ~s1.is_connected
        THEN Done(s1, "launch_app", app_name, "not_connected")
        ELSE IF app_name \in { s1.app_list[k] : k \in 1..Len(s1.app_list) }
             THEN Done(emit(call([s1 EXCEPT !.active_source = app_name], "launch_app"),
                            Upd([source |-> app_name])),
                       "launch_app", app_name, "launched")
             ELSE Done(call(s1, "set_input"), "launch_app", app_name, "error")

\* launch_app() recording the new source before the vendor call is made
launch_app_optimistic(s, app_name, res) ==
    LET s1 == check_connection_and_reconnect(s)
    IN  IF power_off_in_progress(s) \/ ~s1.vizio \/ ~s1.is_connected \/ app_name = ""
        THEN Done(s1, "launch_app", app_name, "not_connected")
        ELSE Done(emit(call([s1 EXCEPT !.active_source = app_name], "launch_app"),
                       Upd([source |-> app_name])),
                  "launch_app", app_name, IF res = "ok" THEN "launched" ELSE "error")

\* async def launch_app(self, app_name=...); `res` is the outcome of the one
\* vendor call a run of it can make.  The client is the synchronous
\* pyvizio.Vizio, so `await self._vizio.set_input(..)` awaits a plain value:
\* when the call itself does not raise, the await raises TypeError, and the
\* `except Exception` of that branch swallows either.
launch_app(s, app_name, res) ==
    IF power_off_in_progress(s)
    THEN Done(s, "launch_app", app_name, "powering_off")
    ELSE LET s1 == check_connection_and_reconnect(s)
         IN  IF ~s1.vizio \/ ~s1.is_connected
             THEN Done(s1, "launch_app", app_name, "not_connected")
             ELSE IF app_name = ""
                  THEN Done(s1, "launch_app", app_name, "no_name")
                  ELSE IF StartsWithHdmi(app_name)
                       THEN Done(call(s1, "set_input"), "launch_app", app_name, "error")
                       ELSE IF app_name \in { s1.app_list[k] : k \in 1..Len(s1.app_list) }
                            THEN LET s2 == call(s1, "launch_app")
                                 IN  IF res = "ok"
                                     THEN Done(emit([s2 EXCEPT !.active_source = app_name],
                                                    Upd([source |-> app_name])),
                                               "launch_app", app_name, "launched")
                                     ELSE Done(s2, "launch_app", app_name, "error")
                            ELSE Done(s1, "launch_app", app_name, "unknown")

\* ------------------------------------------------------- power handling
\* The power_on coroutines of the loop are kept in a fixed order (by position
\* in the code, then by origin): the loop may resume any of them, so their
\* order carries no information.
Key(c) == 2 * (IF c.pc = "start" THEN 0 ELSE c.i + 1) + (IF c.origin = "plain" THEN 0 ELSE 1)

Park(seq, c) ==
    LET before == SelectSeq(seq, LAMBDA d : Key(d) <= Key(c))
        after == SelectSeq(seq, LAMBDA d : Key(d) > Key(c))
    IN  before \o << c >> \o after

\* asyncio.create_task(self.power_on()); `origin` records which branch of
\* toggle_power launched the sequence (an observation, not read by the code).
\* "plain": by toggle_power(True) on a session without a handle.
create_power_on_task(s, origin) ==
    [s EXCEPT !.power_on_coros = Park(@, [pc |-> "start", i |-> 0, origin |-> origin])]

\* toggle_power, first branch (`if self.power_off_in_progress:`).  An
\* exception of self._vizio.pow_on() is not caught and leaves the method.
toggle_power_override(s, power, res) ==
    LET s1 == IF s.vizio THEN call(s, "pow_on") ELSE s
    IN  IF s.vizio /\ res = "raise"
        THEN Done(s1, "toggle_power", power, "raised")
        ELSE Done(emit(create_power_on_task(
                           [s1 EXCEPT !.end_of_power_off = None], "other"),
                       Upd([state |-> "ON"])),
                  "toggle_power", power, "override")

\* toggle_power, from `if power is None:` on, without the power-on deadline
toggle_power_resolve_no_deadline(s, power, res) ==
    LET target == IF power = "none" THEN ~s.is_on ELSE power = "true"
    IN  IF target
        THEN Done(emit(create_power_on_task([s EXCEPT !.is_on = TRUE], "other"),
                       Upd(NoAttrs)),
                  "toggle_power", power, "power_on")
        ELSE Done(emit([s EXCEPT !.end_of_power_off = << PowerOffSec >>,
                                 !.is_on = FALSE], Upd([state |-> "OFF"])),
                  "toggle_power", power, "power_off")

\* toggle_power, from `if power is None:` on, with a failure of pow_off()
\* ending the method
toggle_power_off_fatal(s, power, res) ==
    LET target == IF power = "none" THEN ~s.is_on ELSE power = "true"
    IN  IF target
        THEN Done(emit(create_power_on_task(
                           [s EXCEPT !.end_of_power_on = << PowerOnSec >>,
                                     !.is_on = TRUE], "other"), Upd(NoAttrs)),
                  "toggle_power", power, "power_on")
        ELSE IF s.vizio /\ s.is_connected /\ res = "raise"
             THEN Done(call(s, "pow_off"), "toggle_power", power, "power_off_failed")
             ELSE Done(emit([s EXCEPT !.end_of_power_off = << PowerOffSec >>,
                                      !.is_on = FALSE], Upd([state |-> "OFF"])),
                       "toggle_power", power, "power_off")

\* toggle_power, from `if power is None:` to its end
toggle_power_resolve(s, power, res) ==
    LET target == IF power = "none" THEN ~s.is_on ELSE power = "true"
    IN  IF target
        THEN IF s.vizio /\ s.is_connected /\ s.is_on
             THEN Done(emit([s EXCEPT !.is_on = TRUE], Upd([state |-> "ON"])),
                       "toggle_power", power, "already_on")
             ELSE LET origin == IF ~s.vizio /\ power = "true" THEN "plain" ELSE "other"
                      s1 == create_power_on_task(
                                [s EXCEPT !.end_of_power_on = << PowerOnSec >>], origin)
                  IN  Done(emit([s1 EXCEPT !.is_on = TRUE], Upd(NoAttrs)),
                           "toggle_power", power, "power_on")
        ELSE LET s1 == IF s.vizio /\ s.is_connected THEN call(s, "pow_off") ELSE s
                 s2 == [s1 EXCEPT !.end_of_power_off = << PowerOffSec >>,
                                  !.is_on = FALSE]
             IN  Done(emit(s2, Upd([state |-> "OFF"])),
                      "toggle_power", power,
                      IF s.vizio /\ s.is_connected /\ res = "raise"
                      THEN "power_off_failed" ELSE "power_off")

\* toggle_power() without its second branch (`if self.power_on_in_progress:`)
toggle_power_no_on_guard(s, power, res) ==
    IF power_off_in_progress(s)
    THEN toggle_power_override(s, power, res)
    ELSE toggle_power_resolve(s, power, res)

\* toggle_power() without its first branch
toggle_power_no_lockout(s, power, res) ==
    IF power_on_in_progress(s)
    THEN Done(s, "toggle_power", power, "ignored")
    ELSE toggle_power_resolve(s, power, res)

\* async def toggle_power(self, power=None); `res` is the outcome of the one
\* vendor call a run of it can make (pow_on in the first branch, pow_off,
\* whose exception is caught, in the last).
toggle_power(s, power, res) ==
    IF power_off_in_progress(s)
    THEN toggle_power_override(s, power, res)
    ELSE IF power_on_in_progress(s)
         THEN Done(s, "toggle_power", power, "ignored")
         ELSE toggle_power_resolve(s, power, res)

\* wakeonlan.send_magic_packet to mac_address, then to mac_address2 if set;
\* one try block holds both, so a failure of the first skips the second.
send_magic_packets(s, wol) ==
    LET s1 == call(s, "wol_mac_address")
    IN  IF wol = "ok" /\ s.mac_address2 THEN call(s1, "wol_mac_address2") ELSE s1

\* the tail of power_on(): lines `if not self._is_on` .. `self.events.emit`
power_on_end(s, update) ==
    emit(s, Upd(IF ~s.is_on THEN [state |-> "OFF"] ELSE update))

\* power_on() without the `return` that follows a successful pow_on()
power_on_no_return(s, pow_on, wol) ==
    LET s1 == IF s.vizio THEN call(s, "pow_on") ELSE s
        s2 == IF s.vizio /\ pow_on = "ok"
              THEN emit([s1 EXCEPT !.is_on = TRUE], Upd([state |-> "ON"]))
              ELSE s1
    IN  IF s2.mac_address
        THEN [next |-> "sleep", st |-> send_magic_packets(s2, wol)]
        ELSE [next |-> "done",
              st |-> power_on_end(s2, IF s.vizio /\ pow_on = "ok"
                                      THEN [state |-> "ON"] ELSE NoAttrs)]

\* async def power_on(self), from its start to the first sleep or to its end
power_on(s, pow_on, wol) ==
    LET s1 == IF s.vizio THEN call(s, "pow_on") ELSE s
    IN  IF s.vizio /\ pow_on = "ok"
        THEN [next |-> "done",
              st |-> emit([s1 EXCEPT !.is_on = TRUE], Upd([state |-> "ON"]))]
        ELSE IF s1.mac_address
             THEN [next |-> "sleep", st |-> send_magic_packets(s1, wol)]
             ELSE [next |-> "done", st |-> power_on_end(s1, NoAttrs)]

\* the wake loop of power_on() as `while True:`
power_on_round_unbounded(s, i, probe, wol) ==
    LET s1 == IF s.vizio THEN call(s, "get_power_state") ELSE s
        s2 == [s1 EXCEPT !.ever_on = @ \/ (s.vizio /\ probe = "on")]
    IN  IF s.vizio /\ probe = "on"
        THEN [next |-> "done",
              st |-> power_on_end([s2 EXCEPT !.is_on = TRUE], [state |-> "ON"])]
        ELSE LET s3 == check_connection_and_reconnect(s2)
             IN  IF s3.is_on
                 THEN [next |-> "done", st |-> power_on_end(s3, [state |-> "ON"])]
                 ELSE [next |-> "sleep", st |-> send_magic_packets(s3, wol)]

\* async def power_on(self), from the wake-up of round i (0-based) to the
\* next sleep or to its end
power_on_round(s, i, probe, wol) ==
    LET s1 == IF s.vizio THEN call(s, "get_power_state") ELSE s
        s2 == [s1 EXCEPT !.ever_on = @ \/ (s.vizio /\ probe = "on")]
    IN  IF s.vizio /\ probe = "on"
        THEN [next |-> "done",
              st |-> power_on_end([s2 EXCEPT !.is_on = TRUE], [state |-> "ON"])]
        ELSE LET s3 == check_connection_and_reconnect(s2)
             IN  IF s3.is_on
                 THEN [next |-> "done", st |-> power_on_end(s3, [state |-> "ON"])]
                 ELSE IF i + 1 < WakeRounds
                      THEN [next |-> "sleep", st |-> send_magic_packets(s3, wol)]
                      ELSE [next |-> "done", st |-> power_on_end(s3, NoAttrs)]

\* ------------------------------------------------------ entity updates
\* dict.update: the entries of g over those of f
Merge(f, g) ==
    [k \in DOMAIN f \cup DOMAIN g |-> IF k \in DOMAIN g THEN g[k] ELSE f[k]]

\* VizioMediaPlayer.filter_changed_attributes(update)
VizioMediaPlayer_filter_changed_attributes(update) ==
    LET a1 == IF "state" \in DOMAIN update
              THEN [state |-> IF update.state = "ON" THEN "ON" ELSE "OFF"]
              ELSE NoAttrs
        a2 == IF "source" \in DOMAIN update
              THEN Merge(a1, [source |-> update.source]) ELSE a1
    IN  IF "source_list" \in DOMAIN update
        THEN Merge(a2, [source_list |-> update.source_list]) ELSE a2

\* VizioRemote.filter_changed_attributes(update)
VizioRemote_filter_changed_attributes(update) ==
    IF "state" \in DOMAIN update /\ update.state \in {"ON", "OFF"}
    THEN [state |-> update.state]
    ELSE NoAttrs

\* api.configured_entities.update_attributes(entity_id, attributes) of the
\* integration library: the attributes given are stored in the entity and
\* sent to the hub as they are.
update_attributes(d, entity_id, attrs) ==
    [entities |-> [d.entities EXCEPT ![entity_id] = << Merge(@[1], attrs) >>],
     sent |-> Append(d.sent, [entity |-> entity_id, attributes |-> attrs])]

\* on_device_update, one round of its loop over the entities of the device;
\* the result carries whether the loop goes on (`return` on an entity that
\* is not configured)
on_device_update_entity(d, entity_id, update) ==
    IF d.entities[entity_id] = None
    THEN [goes_on |-> FALSE, d |-> d]
    ELSE LET attrs == IF entity_id = "media_player"
                      THEN VizioMediaPlayer_filter_changed_attributes(update)
                      ELSE VizioRemote_filter_changed_attributes(update)
         IN  [goes_on |-> TRUE,
              d |-> IF attrs # NoAttrs THEN update_attributes(d, entity_id, attrs) ELSE d]

\* async def on_device_update(device_id, update), `update` being None
\* resolved to device.attributes already
on_device_update(entities, update) ==
    LET r1 == on_device_update_entity([entities |-> entities, sent |-> << >>],
                                      "media_player", update)
    IN  IF r1.goes_on THEN on_device_update_entity(r1.d, "remote", update).d ELSE r1.d

\* ---------------------------------------------------------------- actions
\* The session after __init__, for any device configuration and any device.
InitSession ==
    /\ vizio = FALSE
    /\ is_connected = FALSE
    /\ is_on = FALSE
    /\ connect_task = FALSE
    /\ polling = FALSE
    /\ end_of_power_off = None
    /\ end_of_power_on = None
    /\ active_source = ""
    /\ input_list = << >>
    /\ app_list = << >>
    /\ connect_coros = << >>
    /\ poll_coros = << >>
    /\ power_on_coros = << >>
    /\ op = [name |-> "none", arg |-> "", out |-> ""]
    /\ emitted = << >>
    /\ calls = << >>
    /\ connect_calls = 0
    /\ attempts = 0
    /\ connected_events = 0
    /\ ever_on = FALSE

\* The entities of the session as VizioMediaPlayer() and VizioRemote() create
\* them for a new session.
NewMediaPlayer == << [state |-> "OFF", source |-> "", source_list |-> << >>] >>

NewRemote == << [state |-> "OFF"] >>

\* The driver after _configure_new_device, with both entities of the session
\* configured.
InitDriver ==
    /\ configured_entities = [media_player |-> NewMediaPlayer, remote |-> NewRemote]
    /\ sent = << >>
    /\ listeners = TRUE

\* Every configuration of the wake addresses; a device with inputs and apps,
\* one name being both an input and an app.
Init ==
    /\ InitSession
    /\ InitDriver
    /\ mac_address \in BOOLEAN
    /\ mac_address2 \in BOOLEAN
    /\ tv_inputs = << "HDMI1", "CAST" >>
    /\ tv_apps = << "Netflix", "CAST" >>

\* The wake address configured or not; a device that lists no input and no
\* app.  The source fields of the session are written by the handlers and
\* read by none of the connection and power code.
InitPower ==
    /\ InitSession
    /\ InitDriver
    /\ mac_address \in BOOLEAN
    /\ mac_address2 = FALSE
    /\ tv_inputs = << >>
    /\ tv_apps = << >>

\* a caller awaits connect()
Connect ==
    Commit(Done(connect(Cur), "connect", "", ""))

\* a caller awaits disconnect(continue_polling)
Disconnect ==
    \E continue_polling \in BOOLEAN :
        Commit([disconnect(Cur, continue_polling)
                    EXCEPT !.op = [name |-> "disconnect",
                                   arg |-> IF continue_polling THEN "true" ELSE "false",
                                   out |-> "",
                                   pending |-> connect_coros # << >>,
                                   was_polling |-> polling]])

\* the loop runs a new _connect_setup task up to its sleep
ConnectSetupStart ==
    \E k \in 1..Len(connect_coros), probe \in PowerResults :
        /\ connect_coros[k].pc = "start"
        /\ LET me == connect_coros[k]
               r == _connect_setup([Cur EXCEPT !.connect_coros = Remove(@, k)], probe)
               st == IF r.alive
                     THEN [r.st EXCEPT !.connect_coros = Append(@, [me EXCEPT !.pc = "settle"])]
                     ELSE r.st
           IN  Commit(Done(st, "_connect_setup", probe,
                           IF r.raised THEN "failed" ELSE "connected"))

\* the loop resumes a _connect_setup task after its sleep, to its end
ConnectSetupSettle ==
    \E k \in 1..Len(connect_coros), inputs \in ListResults(tv_inputs),
       apps \in ListResults(tv_apps) :
        /\ connect_coros[k].pc = "settle"
        /\ Commit(Done(_connect_setup_settled(
                           [Cur EXCEPT !.connect_coros = Remove(@, k)], inputs, apps),
                       "_connect_setup", "", "settled"))

\* the loop resumes a _poll_worker task for one iteration
PollIteration ==
    \E k \in 1..Len(poll_coros), power \in PowerResults :
        \E current_input \in IfCalled(IsConnected(Cur) /\ power = "on", CurrentInputResults),
           current_app \in IfCalled(IsConnected(Cur) /\ power = "on", CurrentAppResults) :
            Commit([_poll_worker(Cur, power, current_input, current_app)
                        EXCEPT !.op = [name |-> "_poll_worker", arg |-> power, out |-> "",
                                       input |-> current_input.val,
                                       app |-> current_app.val]])

\* a caller awaits toggle_power(power)
TogglePower ==
    \E power \in PowerArgs, res \in IfCalled(vizio, CallResults) :
        /\ Len(power_on_coros) < MaxPowerOnTasks
        /\ Commit(toggle_power(Cur, power, res))

\* the loop runs a new power_on task up to its first sleep or to its end
PowerOnStart ==
    \E k \in 1..Len(power_on_coros), pow_on \in IfCalled(vizio, CallResults),
       wol \in IfCalled(mac_address /\ mac_address2, CallResults) :
        /\ power_on_coros[k].pc = "start"
        /\ LET me == power_on_coros[k]
               r == power_on([Cur EXCEPT !.power_on_coros = Remove(@, k)], pow_on, wol)
               st == IF r.next = "sleep"
                     THEN [r.st EXCEPT !.power_on_coros = Park(@, [me EXCEPT !.pc = "sleep"])]
                     ELSE r.st
           IN  Commit([st EXCEPT !.op = [name |-> "power_on", arg |-> me.origin,
                                         out |-> r.next, round |-> 0,
                                         res |-> IF vizio THEN pow_on ELSE "none"]])

\* the loop resumes a power_on task after the sleep of a wake round
PowerOnRound ==
    \E k \in 1..Len(power_on_coros), probe \in IfCalled(vizio, PowerResults),
       wol \in IfCalled(mac_address /\ mac_address2, CallResults) :
        /\ power_on_coros[k].pc = "sleep"
        /\ LET me == power_on_coros[k]
               r == power_on_round([Cur EXCEPT !.power_on_coros = Remove(@, k)],
                                   me.i, probe, wol)
               st == IF r.next = "sleep"
                     THEN [r.st EXCEPT !.power_on_coros = Park(@, [me EXCEPT !.i = @ + 1])]
                     ELSE r.st
           IN  Commit([st EXCEPT !.op = [name |-> "power_on", arg |-> me.origin,
                                         out |-> r.next, round |-> me.i + 1,
                                         res |-> IF vizio THEN probe ELSE "none"]])

\* media_player_cmd_handler: the status returned to the hub for a command
\* whose session operation ended as `s.op.out` says
StatusCode(s) == IF s.op.out = "raised" THEN "TIMEOUT" ELSE "OK"

\* the hub sends a key command: media_player_cmd_handler awaits send_key(key)
SendKey ==
    \E key \in SendKeys :
        \E res \in IfCalled(IsConnected(Cur) /\ StripKey[key] \in DOMAIN VIZIO_KEY_MAPPING,
                            CallResults) :
            LET s == send_key(Cur, key, res)
            IN  Commit([s EXCEPT !.op = [name |-> s.op.name, arg |-> s.op.arg,
                                         out |-> s.op.out, status |-> StatusCode(s)]])

\* a caller awaits launch_app(app_name=app_name)
LaunchApp ==
    \E app_name \in AppNames :
        \E res \in IfCalled(/\ IsConnected(Cur)
                            /\ ~power_off_in_progress(Cur)
                            /\ \E k \in 1..Len(app_list) : app_list[k] = app_name,
                            CallResults) :
            Commit(launch_app(Cur, app_name, res))

\* the loop runs the _async_remove task that on_device_removed created for
\* the session: `await device.disconnect()`, then
\* `device.events.remove_all_listeners()`
AsyncRemove ==
    /\ CommitSession(Done(disconnect(Cur, TRUE), "_async_remove", "", ""))
    /\ listeners' = FALSE
    /\ UNCHANGED << tv_inputs, tv_apps, configured_entities, sent >>

Left(deadline) ==
    IF deadline = None THEN None
    ELSE IF deadline[1] > TickSec THEN << deadline[1] - TickSec >> ELSE << 0 >>

\* wall-clock time passes
Tick ==
    /\ power_off_in_progress(Cur) \/ power_on_in_progress(Cur)
    /\ Commit(Done([Cur EXCEPT !.end_of_power_off = Left(@),
                               !.end_of_power_on = Left(@)], "tick", "", ""))

Next ==
    \/ Connect
    \/ Disconnect
    \/ ConnectSetupStart
    \/ ConnectSetupSettle
    \/ PollIteration
    \/ TogglePower
    \/ PowerOnStart
    \/ PowerOnRound
    \/ SendKey
    \/ LaunchApp
    \/ AsyncRemove
    \/ Tick

Spec == Init /\ [][Next]_vars

\* The connection and power operations.  On a device without inputs and
\* apps, send_key and launch_app act on the session only through
\* check_connection_and_reconnect(), that is as connect() does: their steps
\* are steps of Connect or leave the session as it is.
NextPower ==
    \/ Connect
    \/ Disconnect
    \/ ConnectSetupStart
    \/ ConnectSetupSettle
    \/ PollIteration
    \/ TogglePower
    \/ PowerOnStart
    \/ PowerOnRound
    \/ Tick

SpecPower == InitPower /\ [][NextPower]_vars

\* The connection and source operations, with no power command issued: a
\* device with inputs and apps, one name being both an input and an app.
InitSource ==
    /\ InitSession
    /\ InitDriver
    /\ mac_address = FALSE
    /\ mac_address2 = FALSE
    /\ tv_inputs = << "HDMI1", "CAST" >>
    /\ tv_apps = << "Netflix", "CAST" >>

NextSource ==
    \/ Connect
    \/ Disconnect
    \/ ConnectSetupStart
    \/ ConnectSetupSettle
    \/ PollIteration
    \/ SendKey
    \/ LaunchApp

SpecSource == InitSource /\ [][NextSource]_vars

\* The connection operations and the removal of the session's configuration.
NextRemove ==
    \/ Connect
    \/ Disconnect
    \/ ConnectSetupStart
    \/ ConnectSetupSettle
    \/ PollIteration
    \/ AsyncRemove

SpecRemove == InitPower /\ [][NextRemove]_vars

\* The power and source commands of the hub on a device with one app and no
\* wake address (a power-on sequence ends at its first step).
InitLaunch ==
    /\ InitSession
    /\ InitDriver
    /\ mac_address = FALSE
    /\ mac_address2 = FALSE
    /\ tv_inputs = << >>
    /\ tv_apps = << "Netflix" >>

NextLaunch ==
    \/ Connect
    \/ Disconnect
    \/ ConnectSetupStart
    \/ ConnectSetupSettle
    \/ PollIteration
    \/ TogglePower
    \/ PowerOnStart
    \/ LaunchApp
    \/ Tick

SpecLaunch == InitLaunch /\ [][NextLaunch]_vars

\* a caller awaits toggle_power(power), up to MaxTasks power-on sequences
\* being alive at a time
TogglePowerConcurrent ==
    \E power \in PowerArgs, res \in IfCalled(vizio, CallResults) :
        /\ Len(power_on_coros) < MaxTasks
        /\ Commit(toggle_power(Cur, power, res))

\* The power commands alone, on a session that is never connected.
NextTasks ==
    \/ TogglePowerConcurrent
    \/ PowerOnStart
    \/ PowerOnRound
    \/ Tick

SpecTasks == InitPower /\ [][NextTasks]_vars

\* a connect attempt against a device that is unreachable until the first
\* attempt has failed and reachable from then on
ConnectAttempt ==
    /\ ConnectSetupStart
    /\ (op'.arg = "raise") <=> (attempts = 0)

\* a poll iteration against a device that answers
PollReachable ==
    /\ PollIteration
    /\ op'.arg # "raise"

\* A session nobody disconnects, on a device that becomes and stays reachable
\* after the first connect attempt; the event loop runs every ready task.
NextReconnect ==
    \/ Connect
    \/ ConnectAttempt
    \/ ConnectSetupSettle
    \/ PollReachable
    \/ TogglePower
    \/ PowerOnStart
    \/ PowerOnRound
    \/ Tick

SpecReconnect ==
    /\ InitPower
    /\ [][NextReconnect]_vars
    /\ WF_vars(ConnectAttempt)
    /\ WF_vars(ConnectSetupSettle)
    /\ WF_vars(PollReachable)

\* The power commands on a session that connects and disconnects, for every
\* configuration of the two wake addresses.
InitWake ==
    /\ InitSession
    /\ InitDriver
    /\ mac_address \in BOOLEAN
    /\ mac_address2 \in BOOLEAN
    /\ tv_inputs = << >>
    /\ tv_apps = << >>

NextWake ==
    \/ Connect
    \/ Disconnect
    \/ ConnectSetupStart
    \/ TogglePower
    \/ PowerOnStart
    \/ PowerOnRound
    \/ Tick

SpecWake == InitWake /\ [][NextWake]_vars

\* on_r2_enter_standby() / on_r2_disconnect_cmd(), for the configured
\* session: `await configured.disconnect()`
on_r2_enter_standby(s) == disconnect(s, TRUE)

\* the hub sends enter-standby or the disconnect command
EnterStandby ==
    Commit(Done(on_r2_enter_standby(Cur), "on_r2_enter_standby", "", ""))

\* The hub connecting the session and sending it to standby, with no user
\* command; Connect is every explicit request to connect.
NextStandby ==
    \/ Connect
    \/ EnterStandby
    \/ ConnectSetupStart
    \/ ConnectSetupSettle
    \/ PollIteration

SpecStandby == InitPower /\ [][NextStandby]_vars

\* source, source_list, each with one of a few values.
StatePart == {NoAttrs} \cup { [state |-> v] : v \in {"ON", "OFF"} }

SourcePart == {NoAttrs} \cup { [source |-> v] : v \in {"HDMI1", "Netflix"} }

SourceListPart ==
    {NoAttrs} \cup { [source_list |-> v] : v \in { << "HDMI1" >>, << "HDMI1", "Netflix" >> } }

\* The entities of a session in any state the hub and earlier updates can
\* have left them in, each one configured or not.
InitUpdate ==
    /\ InitSession
    /\ mac_address = FALSE
    /\ mac_address2 = FALSE
    /\ tv_inputs = << >>
    /\ tv_apps = << >>
    /\ \E mp \in BOOLEAN, rem \in BOOLEAN, mp_state \in {"ON", "OFF", "UNAVAILABLE"} :
           configured_entities =
               [media_player |-> IF mp
                                 THEN << [NewMediaPlayer[1] EXCEPT !.state = mp_state] >>
                                 ELSE None,
                remote |-> IF rem THEN NewRemote ELSE None]
    /\ sent = << >>
    /\ listeners = TRUE

\* the session emits UPDATE with `update` and the loop runs the listener
\* registered for it, or a caller passes None and the update is
\* device.attributes
OnDeviceUpdate ==
    \E given \in BOOLEAN, a \in StatePart, b \in SourcePart, c \in SourceListPart :
        LET update == IF given THEN Merge(Merge(a, b), c) ELSE attributes(Cur)
            d == on_device_update(configured_entities, update)
        IN  /\ given => listeners
            /\ configured_entities' = d.entities
            /\ sent' = d.sent
            /\ op' = [name |-> "on_device_update",
                      arg |-> IF given THEN "update" ELSE "none", out |-> "",
                      state |-> IF "state" \in DOMAIN update THEN update.state ELSE ""]
            /\ UNCHANGED << vizio, is_connected, is_on, connect_task, polling,
                            end_of_power_off, end_of_power_on, active_source,
                            input_list, app_list, mac_address, mac_address2,
                            connect_coros, poll_coros, power_on_coros, emitted,
                            calls, connect_calls, attempts, connected_events,
                            ever_on, tv_inputs, tv_apps, listeners >>

NextUpdate == OnDeviceUpdate

SpecUpdate == InitUpdate /\ [][NextUpdate]_vars

\* ------------------------------------------------- entity subscriptions
EntityIds == {"media_player", "remote"}

\* The integration library on a subscribe message, before it emits
\* SUBSCRIBE_ENTITIES: the entity registered as available becomes configured.
\* Its attributes are taken as those of a new entity; the handler overwrites
\* the state at once.
library_subscribe(entities, entity_id) ==
    [entities EXCEPT ![entity_id] =
        IF @ # None THEN @
        ELSE IF entity_id = "media_player" THEN NewMediaPlayer ELSE NewRemote]

\* The integration library on an unsubscribe message, before it emits
\* UNSUBSCRIBE_ENTITIES: the entities are no longer configured.
library_unsubscribe(entities, entity_ids) ==
    [e \in EntityIds |-> IF e \in entity_ids THEN None ELSE entities[e]]

\* async def on_subscribe_entities(entity_ids), for one entity of a device
\* that is in _configured_devices: the attributes of the session are written
\* to the entity and connect() is awaited if the session is not connected.
on_subscribe_entities(s, d, entity_id) ==
    LET attrs == attributes(s)
    IN  [d |-> IF entity_id = "media_player"
               THEN update_attributes(d, entity_id, attrs)
               ELSE update_attributes(d, entity_id, [state |-> attrs.state]),
         s |-> IF ~IsConnected(s) THEN connect(s) ELSE s]

\* async def on_unsubscribe_entities(entity_ids): whether the device is
\* disconnected and stripped of its listeners, i.e. no configured entity
\* outside entity_ids belongs to it
on_unsubscribe_entities(entities, entity_ids) ==
    ~ \E e \in EntityIds \ entity_ids : entities[e] # None

\* the hub subscribes to one entity of the device
SubscribeEntities ==
    \E entity_id \in EntityIds :
        LET r == on_subscribe_entities(
                     Cur,
                     [entities |-> library_subscribe(configured_entities, entity_id),
                      sent |-> << >>],
                     entity_id)
        IN  /\ CommitSession(Done(r.s, "on_subscribe_entities", entity_id, ""))
            /\ configured_entities' = r.d.entities
            /\ sent' = r.d.sent
            /\ UNCHANGED << tv_inputs, tv_apps, listeners >>

\* the hub unsubscribes from one subscribed entity of the device or from both
UnsubscribeEntities ==
    \E entity_ids \in (SUBSET EntityIds) \ {{}} :
        LET entities == library_unsubscribe(configured_entities, entity_ids)
            removed == on_unsubscribe_entities(entities, entity_ids)
        IN  /\ \A e \in entity_ids : configured_entities[e] # None
            /\ CommitSession(Done(IF removed THEN disconnect(Cur, TRUE) ELSE Cur,
                                  "on_unsubscribe_entities",
                                  IF entity_ids = EntityIds THEN "both"
                                  ELSE CHOOSE e \in entity_ids : TRUE,
                                  IF removed THEN "removed" ELSE "kept"))
            /\ configured_entities' = entities
            /\ sent' = << >>
            /\ listeners' = (listeners /\ ~removed)
            /\ UNCHANGED << tv_inputs, tv_apps >>

\* The driver after main(): the device configured, its listeners registered,
\* no entity subscribed yet.
InitSubscribe ==
    /\ InitSession
    /\ mac_address = FALSE
    /\ mac_address2 = FALSE
    /\ tv_inputs = << >>
    /\ tv_apps = << >>
    /\ configured_entities = [media_player |-> None, remote |-> None]
    /\ sent = << >>
    /\ listeners = TRUE

\* The hub subscribing and unsubscribing, the connect attempts this starts
\* and the updates of the session reaching the driver.
NextSubscribe ==
    \/ SubscribeEntities
    \/ UnsubscribeEntities
    \/ ConnectSetupStart
    \/ OnDeviceUpdate

SpecSubscribe == InitSubscribe /\ [][NextSubscribe]_vars

\* ------------------------------------------------------------ properties
Range(seq) == { seq[k] : k \in 1..Len(seq) }

UpdState(v) == Upd([state |-> v])

\* C1: idempotent connect.  From one disconnect() to the next, whatever the
\* number of connect() calls, at most one _connect_setup coroutine is in
\* flight, _connect() runs at most once and CONNECTED is emitted at most
\* once; and once the coroutine created by the first of these calls has made
\* its step, _connect() has run exactly once and exactly one CONNECTED has
\* been emitted.
C1_IdempotentConnect ==
    /\ Len(connect_coros) <= 1
    /\ attempts <= 1
    /\ connected_events <= 1
    /\ (connect_task /\ \A k \in 1..Len(connect_coros) : connect_coros[k].pc # "start")
           => (attempts = 1 /\ connected_events = 1)

\* A connect() call has just been made while the attempt of an earlier call
\* was pending (it started nothing and emitted nothing); that attempt has
\* run once and emitted one CONNECTED.
C1_Witness ==
    /\ op.name = "connect"
    /\ emitted = << >>
    /\ connect_calls >= 1
    /\ Len(connect_coros) = 1
    /\ attempts = 1
    /\ connected_events = 1

\* C2: power-on timeout.  When the power-on sequence launched by
\* toggle_power(True) on a session without a handle, with a wake MAC
\* configured, ends and no get_power_state() call has ever returned "on",
\* its last event is UPDATE{state=OFF} and is_on is false.
C2_PowerOnTimeout ==
    (/\ op.name = "power_on"
     /\ op.arg = "plain"
     /\ op.out = "done"
     /\ mac_address
     /\ ~ever_on)
        => (emitted # << >> /\ emitted[Len(emitted)] = UpdState("OFF") /\ ~is_on)

\* C3: is_on never holds together with an unexpired power-off deadline.
C3_NotOnWhilePoweringOff ==
    ~(is_on /\ power_off_in_progress(Cur))

\* C4: at most one _poll_worker coroutine is alive, and the poll task handle
\* is set exactly when one is.
C4_OnePollTask ==
    /\ Len(poll_coros) <= 1
    /\ polling <=> (Len(poll_coros) = 1)

\* A connect attempt has just started the poll loop while a power-on sequence
\* is running.
C4_Witness ==
    /\ op.name = "_connect_setup"
    /\ op.out = "settled"
    /\ polling
    /\ Len(poll_coros) = 1
    /\ power_on_coros # << >>

\* C5: a connect() call made while the session is not connected and no
\* connect attempt is running starts a connect attempt.
C5_ConnectStartsAttempt ==
    [][(op'.name = "connect" /\ ~IsConnected(Cur) /\ connect_coros = << >>)
           => connect_coros' # << >>]_vars

\* C6: a failed connect attempt leaves no handle and the session not
\* connected, and emits UPDATE{state=OFF} and DISCONNECTED.
C6_FailedAttemptDisconnects ==
    (op.name = "_connect_setup" /\ op.out = "failed")
        => (/\ ~vizio
            /\ ~is_connected
            /\ UpdState("OFF") \in Range(emitted)
            /\ Ev("DISCONNECTED") \in Range(emitted))

\* C7: CONNECTED is emitted only by a connect attempt whose probe succeeded.
C7_ConnectedOnlyOnSuccess ==
    (Ev("CONNECTED") \in Range(emitted))
        => (op.name = "_connect_setup" /\ op.out = "connected")

\* C8: after a successful connect attempt is_on is what the probe returned,
\* and the attempt's UPDATE{state} carries ON iff the probe returned on.
C8_IsOnFromProbe ==
    (op.name = "_connect_setup" /\ op.out = "connected")
        => (/\ is_on = (op.arg = "on")
            /\ UpdState(StateOf(op.arg = "on")) \in Range(emitted)
            /\ UpdState(StateOf(op.arg # "on")) \notin Range(emitted))

\* C9: power-off lockout.  A toggle_power(False) call made while the
\* power-off deadline is set and unexpired does not call pow_off.
C9_PowerOffLockout ==
    [][(power_off_in_progress(Cur) /\ op'.name = "toggle_power" /\ op'.arg = "false")
           => "pow_off" \notin Range(calls')]_vars

\* toggle_power(False) has just run inside the power-off window of a session
\* with a handle (the vendor was called, with pow_on).
C9_Witness ==
    /\ op = [name |-> "toggle_power", arg |-> "false", out |-> "override"]
    /\ calls = << "pow_on" >>

\* C10: power-off override.  A toggle_power(True) call made while the
\* power-off deadline is unexpired clears the deadline, launches a power-on
\* sequence and emits UPDATE{state=ON} (and nothing else).
C10_PowerOffOverride ==
    [][(power_off_in_progress(Cur) /\ op'.name = "toggle_power" /\ op'.arg = "true")
           => (/\ end_of_power_off' = None
               /\ Len(power_on_coros') = Len(power_on_coros) + 1
               /\ emitted' = << UpdState("ON") >>)]_vars

\* C11: when toggle_power returns from the power-off override branch, is_on
\* is true (the state property reads ON).
C11_OverrideSetsOn ==
    (op.name = "toggle_power" /\ op.out = "override")
        => (is_on /\ state(Cur) = "ON")

\* C12: never-throw contract.  No public operation of the session ends by
\* an exception of a vendor call.
C12_NeverThrow ==
    op.out # "raised"

StateEvents(seq) ==
    SelectSeq(seq, LAMBDA e : e.type = "UPDATE" /\ "state" \in DOMAIN e.attrs)

SourceEvents(seq) ==
    SelectSeq(seq, LAMBDA e : e.type = "UPDATE" /\ "source" \in DOMAIN e.attrs)

\* C13: the poll loop never ends because of a device error.  A poll
\* iteration, whatever its vendor calls return or raise, leaves the poll task
\* alive and its handle set; a poll task ends only by the cancellation made
\* by disconnect(continue_polling=False).
C13_PollLoopSurvives ==
    [][/\ op'.name = "_poll_worker" => (poll_coros' = poll_coros /\ polling' = polling)
       /\ Len(poll_coros') < Len(poll_coros)
              => (op'.name = "disconnect" /\ op'.arg = "false")]_vars

\* The probe of a poll iteration on a connected session has just raised, and
\* the poll task is still there.
C13_Witness ==
    /\ op.name = "_poll_worker"
    /\ op.arg = "raise"
    /\ calls = << "get_power_state" >>
    /\ polling
    /\ Len(poll_coros) = 1

\* C14: poll convergence.  A poll iteration on a connected session whose
\* probe returns a power state sets is_on to the sample, and emits
\* UPDATE{state} (once, carrying the sample) if and only if the sample
\* differs from the cached is_on.
C14_PollConvergence ==
    [][(op'.name = "_poll_worker" /\ IsConnected(Cur) /\ op'.arg \in {"on", "off"})
           => LET on == (op'.arg = "on")
              IN  /\ is_on' = on
                  /\ StateEvents(emitted') =
                         IF on # is_on THEN << UpdState(StateOf(on)) >> ELSE << >>]_vars

\* A poll iteration has just sampled "off" on a session that was on and has
\* emitted UPDATE{state=OFF}.
C14_Witness ==
    /\ op.name = "_poll_worker"
    /\ op.arg = "off"
    /\ calls = << "get_power_state" >>
    /\ emitted = << UpdState("OFF") >>
    /\ ~is_on

\* C15: when the configuration of the session is removed, its poll task and
\* any in-flight connect task are both cancelled.
C15_RemoveCancelsTasks ==
    [][op'.name = "_async_remove"
           => (/\ ~polling'
               /\ poll_coros' = << >>
               /\ ~connect_task'
               /\ connect_coros' = << >>)]_vars

\* C16: after disconnect(), in any prior state, there is no handle, the
\* session is not connected, the connect task handle is cleared, no connect
\* attempt is left pending and DISCONNECTED (and nothing else) was emitted;
\* disconnect() on an already disconnected session (no handle, not connected,
\* no connect task handle) changes no field of the session.
C16_Disconnect ==
    [][op'.name = "disconnect"
           => (/\ ~vizio'
               /\ ~is_connected'
               /\ ~connect_task'
               /\ connect_coros' = << >>
               /\ emitted' = << Ev("DISCONNECTED") >>
               /\ (~vizio /\ ~is_connected /\ ~connect_task /\ op'.arg = "true")
                      => UNCHANGED << is_on, polling, end_of_power_off, end_of_power_on,
                                      active_source, input_list, app_list, mac_address,
                                      mac_address2, connect_coros, poll_coros,
                                      power_on_coros >>)]_vars

\* disconnect() has just cancelled a pending connect attempt while the poll
\* loop keeps running.
C16_Witness ==
    /\ op.name = "disconnect"
    /\ op.arg = "true"
    /\ op.pending
    /\ polling
    /\ connect_coros = << >>
    /\ ~connect_task

\* C17: disconnect(continue_polling=False) cancels the poll task and clears
\* its handle; a poll task is created only at the end of a connect attempt,
\* and a connect() call was made for that attempt after the last disconnect.
C17_PollingStopsUntilConnect ==
    [][/\ (op'.name = "disconnect" /\ op'.arg = "false")
              => (~polling' /\ poll_coros' = << >>)
       /\ ((~polling /\ polling') \/ Len(poll_coros') > Len(poll_coros))
              => (/\ op'.name = "_connect_setup"
                  /\ op'.out = "settled"
                  /\ connect_calls' >= 1)]_vars

\* disconnect(continue_polling=False) has just stopped a running poll loop
\* while a power-on sequence is still running.
C17_Witness ==
    /\ op.name = "disconnect"
    /\ op.arg = "false"
    /\ op.was_polling
    /\ ~polling
    /\ poll_coros = << >>
    /\ power_on_coros # << >>

\* C19: a poll iteration of a connected, powered-on session emits
\* UPDATE{source} only for a sample that changes the active source: the
\* source of each such event differs from the active source as it was just
\* before the event.
C19_SourceOnlyOnChange ==
    [][(op'.name = "_poll_worker" /\ IsConnected(Cur) /\ op'.arg = "on")
           => LET src == SourceEvents(emitted')
              IN  \A k \in 1..Len(src) :
                      src[k].attrs.source #
                          (IF k = 1 THEN active_source ELSE src[k - 1].attrs.source)]_vars

\* C20: in a poll iteration of a connected, powered-on session, a current
\* input that is empty (or whose call raised) and a current app that is
\* empty, "Unknown App" or "No App Running" are ignored: UPDATE{source} is
\* emitted for the other samples only, in the order input, app, and the
\* active source is the last of those, or unchanged when there is none.
C20_SentinelsIgnored ==
    [][(op'.name = "_poll_worker" /\ IsConnected(Cur) /\ op'.arg = "on")
           => LET ins == IF op'.input # "" THEN << op'.input >> ELSE << >>
                  apps == IF op'.app \notin {"", "Unknown App", "No App Running"}
                          THEN << op'.app >> ELSE << >>
                  taken == ins \o apps
              IN  /\ SourceEvents(emitted') =
                         [k \in 1..Len(taken) |-> Upd([source |-> taken[k]])]
                  /\ active_source' =
                         IF taken = << >> THEN active_source ELSE taken[Len(taken)]]_vars

\* A poll iteration has just sampled no input and the placeholder
\* "Unknown App" on a session whose active source was known: the source is
\* kept and nothing is emitted.
C20_Witness ==
    /\ op.name = "_poll_worker"
    /\ op.arg = "on"
    /\ op.input = ""
    /\ op.app = "Unknown App"
    /\ calls = << "get_power_state", "get_current_input", "get_current_app" >>
    /\ active_source = "Netflix"
    /\ emitted = << >>

\* C18: update reconciler.  on_device_update passes to the hub only
\* attributes whose new value differs from the value the entity has.
C18_OnlyChangedAttributes ==
    [][op'.name = "on_device_update"
           => \A k \in 1..Len(sent') :
                  \A a \in DOMAIN sent'[k].attributes :
                      sent'[k].attributes[a] #
                          configured_entities[sent'[k].entity][1][a]]_vars

\* C21: source_list is the sorted union of the cached input names and the
\* cached app names: ascending, holding every input and every app name, and
\* each name once.
C21_SourceListUnion ==
    LET sl == source_list(Cur)
    IN  /\ \A j, k \in 1..Len(sl) : j < k => Rank(sl[j]) <= Rank(sl[k])
        /\ Range(sl) = Range(input_list) \cup Range(app_list)
        /\ \A j, k \in 1..Len(sl) : j # k => sl[j] # sl[k]

\* C22: unmapped key.  send_key with a key that has no entry in the key
\* mapping (the KEY_ prefix stripped) makes no remote() call, raises nothing,
\* and the command handler returns the success status.
C22_UnmappedKey ==
    (op.name = "send_key" /\ StripKey[op.arg] \notin DOMAIN VIZIO_KEY_MAPPING)
        => (/\ "remote" \notin Range(calls)
            /\ op.out \in {"unmapped", "not_connected"}
            /\ op.status = "OK")

\* A key without a mapping has just been sent on a connected session.
C22_Witness ==
    /\ op.name = "send_key"
    /\ op.arg = "KEY_CH_LIST"
    /\ op.out = "unmapped"
    /\ vizio
    /\ is_connected
    /\ calls = << >>

\* C24: launch_app changes the active source or emits UPDATE{source} only
\* when its vendor call succeeded, and then the source is the name given; a
\* failed call, a session that is not connected, no name, or a name that is
\* neither an HDMI input nor a known app leave the active source as it is
\* and emit no UPDATE{source}.
C24_LaunchAppOnSuccessOnly ==
    [][op'.name = "launch_app"
           => IF op'.out = "launched"
              THEN /\ IsConnected(Cur')
                   /\ Range(calls') \cap {"set_input", "launch_app"} # {}
                   /\ active_source' = op'.arg
                   /\ SourceEvents(emitted') = << Upd([source |-> op'.arg]) >>
              ELSE /\ active_source' = active_source
                   /\ SourceEvents(emitted') = << >>]_vars

\* The vendor call of launch_app has just failed on a session with a known
\* active source, which is kept.
C24_Witness ==
    /\ op = [name |-> "launch_app", arg |-> "Netflix", out |-> "error"]
    /\ calls = << "launch_app" >>
    /\ active_source = "HDMI1"
    /\ emitted = << >>

\* C25: toggle_power, with any argument, called while a power-on is in
\* progress and no power-off is, does nothing: no vendor call, no event, no
\* new power-on sequence, and no field of the session changes.
C25_PowerOnInProgressNoOp ==
    [][(/\ op'.name = "toggle_power"
        /\ power_on_in_progress(Cur)
        /\ ~power_off_in_progress(Cur))
           => (/\ calls' = << >>
               /\ emitted' = << >>
               /\ UNCHANGED << vizio, is_connected, is_on, connect_task, polling,
                               end_of_power_off, end_of_power_on, active_source,
                               connect_coros, poll_coros, power_on_coros >>)]_vars

\* toggle_power has just been ignored on a connected session inside the
\* power-on window.
C25_Witness ==
    /\ op.name = "toggle_power"
    /\ op.out = "ignored"
    /\ vizio
    /\ is_connected
    /\ power_on_in_progress(Cur)

\* C29: toggle_power resolving to ON (True, or None with is_on false) on a
\* session that is not both connected and on, with no transition in
\* progress, sets the power-on deadline PowerOnSec ahead, launches exactly
\* one power-on sequence and returns with is_on true.
C29_PowerOnOptimistic ==
    [][(/\ op'.name = "toggle_power"
        /\ ~power_off_in_progress(Cur)
        /\ ~power_on_in_progress(Cur)
        /\ (op'.arg = "true" \/ (op'.arg = "none" /\ ~is_on))
        /\ ~(IsConnected(Cur) /\ is_on))
           => (/\ end_of_power_on' = << PowerOnSec >>
               /\ Len(power_on_coros') = Len(power_on_coros) + 1
               /\ is_on')]_vars

\* toggle_power() has just resolved to ON on a connected session that was
\* off.
C29_Witness ==
    /\ op = [name |-> "toggle_power", arg |-> "none", out |-> "power_on"]
    /\ vizio
    /\ is_connected
    /\ is_on
    /\ end_of_power_on = << PowerOnSec >>
    /\ Len(power_on_coros) = 1

\* C30: toggle_power resolving to OFF (False, or None with is_on true) with
\* no transition in progress calls pow_off if and only if the session is
\* connected, and, whether that call fails or not, sets the power-off
\* deadline PowerOffSec ahead, sets is_on false and emits exactly
\* UPDATE{state=OFF}.
C30_PowerOff ==
    [][(/\ op'.name = "toggle_power"
        /\ ~power_off_in_progress(Cur)
        /\ ~power_on_in_progress(Cur)
        /\ (op'.arg = "false" \/ (op'.arg = "none" /\ is_on)))
           => (/\ calls' = IF IsConnected(Cur) THEN << "pow_off" >> ELSE << >>
               /\ end_of_power_off' = << PowerOffSec >>
               /\ ~is_on'
               /\ emitted' = << UpdState("OFF") >>)]_vars

\* The pow_off() call of toggle_power(False) has just failed.
C30_Witness ==
    /\ op = [name |-> "toggle_power", arg |-> "false", out |-> "power_off_failed"]
    /\ calls = << "pow_off" >>
    /\ end_of_power_off = << PowerOffSec >>
    /\ ~is_on
    /\ emitted = << UpdState("OFF") >>

\* C23: launch_app called while a power-off is in progress does nothing: no
\* vendor call, no connect attempt, no event, and no field of the session
\* (the active source among them) changes.
C23_LaunchAppLockout ==
    [][(op'.name = "launch_app" /\ power_off_in_progress(Cur))
           => (/\ calls' = << >>
               /\ emitted' = << >>
               /\ UNCHANGED << vizio, is_connected, is_on, connect_task, polling,
                               end_of_power_off, end_of_power_on, active_source,
                               input_list, app_list, connect_coros, poll_coros,
                               power_on_coros >>)]_vars

\* launch_app of a known app has just been refused on a connected session
\* inside the power-off window.
C23_Witness ==
    /\ op = [name |-> "launch_app", arg |-> "Netflix", out |-> "powering_off"]
    /\ vizio
    /\ is_connected
    /\ app_list = << "Netflix" >>
    /\ power_off_in_progress(Cur)

\* C26: once a connect attempt has failed and the poll loop runs, on a device
\* that stays reachable and with nobody calling disconnect(), the session is
\* eventually connected.
C26_PollLoopReconnects ==
    (polling /\ attempts >= 1 /\ ~IsConnected(Cur)) ~> IsConnected(Cur)

\* C27: at most one power-on sequence task is alive at any time.
C27_OnePowerOnTask ==
    Len(power_on_coros) <= 1

\* C28: disconnect() aborts an in-flight connect attempt cleanly.  The
\* disconnect() that finds an attempt pending leaves none, leaves the session
\* not connected and emits DISCONNECTED only (no ERROR); and every step a
\* connect attempt makes belongs to an attempt that a connect() call made
\* after the last disconnect() created.
C28_CleanAbort ==
    [][/\ (op'.name = "disconnect" /\ connect_coros # << >>)
              => (/\ connect_coros' = << >>
                  /\ ~is_connected'
                  /\ emitted' = << Ev("DISCONNECTED") >>)
       /\ op'.name = "_connect_setup"
              => (connect_calls >= 1 /\ Ev("ERROR") \notin Range(emitted'))]_vars

\* disconnect() has just cancelled a pending connect attempt on a session
\* whose poll loop is not running.
C28_Witness ==
    /\ op.name = "disconnect"
    /\ op.arg = "true"
    /\ op.pending
    /\ ~op.was_polling
    /\ ~polling
    /\ connect_coros = << >>
    /\ ~is_connected

\* C31: the power-off override is taken for every argument.  A
\* toggle_power(False) or toggle_power(None) call made while the power-off
\* deadline is unexpired calls pow_on when a handle exists, clears the
\* deadline, launches a power-on sequence and emits UPDATE{state=ON}.
C31_OverrideAnyArgument ==
    [][(power_off_in_progress(Cur) /\ op'.name = "toggle_power"
            /\ op'.arg \in {"false", "none"})
           => (/\ calls' = (IF vizio THEN << "pow_on" >> ELSE << >>)
               /\ end_of_power_off' = None
               /\ Len(power_on_coros') = Len(power_on_coros) + 1
               /\ emitted' = << UpdState("ON") >>)]_vars

\* the UPDATE events of an event log
Updates(seq) == SelectSeq(seq, LAMBDA e : e.type = "UPDATE")

\* C32: a power-on sequence is bounded.  No sequence is ever in a wake round
\* beyond the 7th; a step that sends wake packets after a round's test does
\* so only while is_on is false and emits no UPDATE; the step that ends a
\* sequence sends no wake packet and emits exactly one UPDATE, as its last
\* event.
C32_WakeBounded ==
    /\ \A k \in 1..Len(power_on_coros) : power_on_coros[k].i < WakeRounds
    /\ op.name = "power_on"
           => /\ op.round <= WakeRounds
              /\ (op.out = "sleep" /\ op.round >= 1) => ~is_on
              /\ op.out = "sleep" => Updates(emitted) = << >>
              /\ op.out = "done"
                     => /\ Len(Updates(emitted)) = 1
                        /\ emitted[Len(emitted)].type = "UPDATE"
                        /\ "wol_mac_address" \notin Range(calls)

\* a power-on sequence has just ended after its 7th wake round without
\* seeing the device on.
C32_Witness ==
    /\ op.name = "power_on"
    /\ op.out = "done"
    /\ op.round = WakeRounds
    /\ mac_address
    /\ ~is_on
    /\ emitted = << UpdState("OFF") >>

\* C33: each wake round sends a packet to every configured MAC address.  A
\* power_on step that runs a round (it ends in the round's sleep, or it is
\* the first step and the vendor call did not succeed) sends to mac_address
\* if configured and to mac_address2 if configured.
C33_EachMacEachRound ==
    (op.name = "power_on" /\ (op.out = "sleep" \/ (op.round = 0 /\ op.res # "ok")))
        => (/\ mac_address => "wol_mac_address" \in Range(calls)
            /\ mac_address2 => "wol_mac_address2" \in Range(calls))

\* C34: a power-on sequence that starts with a handle and whose pow_on()
\* succeeds sets is_on, emits UPDATE{state=ON} once and ends: no wake packet,
\* no other vendor call, no connect() call.
C34_VendorPowerOn ==
    [][(op'.name = "power_on" /\ op'.round = 0 /\ op'.res = "ok")
           => (/\ is_on'
               /\ emitted' = << UpdState("ON") >>
               /\ calls' = << "pow_on" >>
               /\ op'.out = "done"
               /\ Len(power_on_coros') = Len(power_on_coros) - 1
               /\ UNCHANGED << vizio, is_connected, connect_task, connect_coros,
                               connect_calls >>)]_vars

\* a sequence started by toggle_power(True) on a session with a handle and
\* both wake addresses configured has just ended by the vendor call.
C34_Witness ==
    /\ op.name = "power_on"
    /\ op.round = 0
    /\ op.res = "ok"
    /\ op.out = "done"
    /\ mac_address
    /\ mac_address2
    /\ calls = << "pow_on" >>

\* C35: check_connection_and_reconnect is best-effort.  A send_key or
\* launch_app call on a session that is not connected calls connect(),
\* returns with the session still not connected and makes no vendor call; on
\* a connected session it calls no connect() and starts no attempt.
C35_BestEffortReconnect ==
    [][op'.name \in {"send_key", "launch_app"}
           => (/\ ~IsConnected(Cur)
                      => (/\ calls' = << >>
                          /\ ~(vizio' /\ is_connected')
                          /\ op'.out = "not_connected"
                          /\ connect_calls' >= 1)
               /\ IsConnected(Cur)
                      => (/\ UNCHANGED << connect_task, connect_coros, connect_calls >>
                          /\ Ev("CONNECTING") \notin Range(emitted')))]_vars

\* send_key of a mapped key on a session that was not connected has just
\* started a connect attempt and returned without sending the key.
C35_Witness ==
    /\ op.name = "send_key"
    /\ op.arg = "KEY_MUTE"
    /\ op.out = "not_connected"
    /\ emitted = << Ev("CONNECTING") >>
    /\ connect_coros # << >>
    /\ calls = << >>

\* C36: a session sent to standby does not reconnect on its own.  The poll
\* iteration that follows the standby disconnect, with no request to connect
\* in between, starts no connect attempt.
C36_NoReconnectInStandby ==
    [][(op.name = "on_r2_enter_standby" /\ op'.name = "_poll_worker")
           => (/\ connect_coros' = connect_coros
               /\ ~connect_task'
               /\ Ev("CONNECTING") \notin Range(emitted'))]_vars

\* C37: while an entity of the device is subscribed, on_device_update is
\* registered for the UPDATE events of the session, after any sequence of
\* subscribe and unsubscribe messages.
C37_UpdateListenerKept ==
    (\E e \in EntityIds : configured_entities[e] # None) => listeners

\* C38: on_device_update applies an update to every configured entity of the
\* device.  After an update that carries a state, the remote entity, if
\* configured, has that state, whether the media-player entity is configured
\* or not.
C38_RemoteAlwaysUpdated ==
    (op.name = "on_device_update" /\ op.state # "" /\ configured_entities.remote # None)
        => configured_entities.remote[1].state = op.state

\* C39: every UPDATE event that carries source_list carries the derived
\* source list of the session (sorted inputs and apps) as it is when the
\* event is emitted: within a step, with the inputs just read and the apps
\* cached before the step or those just read.
C39_SourceListEvents ==
    [][\A k \in 1..Len(emitted') :
           (emitted'[k].type = "UPDATE" /\ "source_list" \in DOMAIN emitted'[k].attrs)
               => emitted'[k].attrs.source_list \in
                      { sorted(input_list' \o app_list), sorted(input_list' \o app_list') }]_vars

\* C40: between the steps of the session's tasks the handle is present
\* exactly when the connected flag is true.
C40_HandleIffConnected ==
    vizio <=> is_connected

\* a connect attempt of a session whose poll loop runs has just failed: its
\* handle was created and dropped again within the step.
C40_Witness ==
    /\ op.name = "_connect_setup"
    /\ op.out = "failed"
    /\ polling
    /\ ~vizio
    /\ ~is_connected
    /\ calls = << "get_power_state" >>

====
